---- MODULE Spec2Model ----
(***************************************************************************)
(* NetworkCamera (src/backends/capture/network_camera.rs): an adapter that *)
(* owns one OpenCvCaptureDevice opened from an IP address string and       *)
(* forwards the stream / frame operations to it.                           *)
(*                                                                         *)
(* The capture device itself (OpenCvCaptureDevice) is not part of the      *)
(* file; its behaviour is taken from the specification's description of    *)
(* the "Capture Device Provider" and is kept in the device_* operators.    *)
(*                                                                         *)
(* Only new, ip and set_ip are public inherent methods.  The inherent      *)
(* open_stream, frame, min_buffer_size, frame_to_buffer, frame_texture and *)
(* stop_stream are private: a caller outside the file who names them gets  *)
(* the CaptureBackendTrait methods, which are all todo!().  Spec is what    *)
(* any owner of a handle can do; ModuleSpec adds calls of the private      *)
(* methods made from inside the file.                                      *)
(*                                                                         *)
(* A panic is the outcome of the call that raised it; the handle is left   *)
(* as it was, and its owner may drop it (unwinding) or go on using it      *)
(* (catch_unwind).  Where the outcome of an integer overflow depends on    *)
(* the build, overflow_checks is chosen freely in Init.                    *)
(***************************************************************************)
EXTENDS Integers, Sequences, FiniteSets, TLC

\* ------------------------------------------------------------------ bounds
\* Addresses 1..MaxAddr are well formed; address 0 is a malformed one.
MaxAddr == 2
\* Number of capture devices ever opened in one run.
MaxDevices == 3
\* Frames are delivered for resolutions with both sides in 0..MaxDim.
MaxDim == 2
\* Length of the caller's destination buffer, 0..MaxBufLen.
MaxBufLen == 5

\* ------------------------------------------------------- u32 arithmetic
\* A u32 is four base-256 digits, least significant first.
ToU32(n) ==
  <<n % 256, (n \div 256) % 256, (n \div 65536) % 256, (n \div 16777216) % 256>>

\* Value of a u32 below 2^31.
U32ToInt(a) == a[1] + 256 * a[2] + 65536 * a[3] + 16777216 * a[4]

\* a < b on u32 values.
U32Less(a, b) ==
  \E i \in 1..4 : a[i] < b[i] /\ \A j \in (i+1)..4 : a[j] = b[j]

\* One partial product of the schoolbook multiplication.
Term(a, b, i, j) ==
  IF (i - j + 1) \in 1..4 THEN a[j] * b[i - j + 1] ELSE 0

\* Sum of the partial products that land on digit i of a * b.
Col(a, b, i) == Term(a, b, i, 1) + Term(a, b, i, 2) + Term(a, b, i, 3) + Term(a, b, i, 4)

RECURSIVE CarryIn(_, _, _)
\* Carry into digit i of a * b.
CarryIn(a, b, i) ==
  IF i = 1 THEN 0 ELSE (Col(a, b, i - 1) + CarryIn(a, b, i - 1)) \div 256

\* The eight digits of the full product of two u32 values.
Product(a, b) == [i \in 1..8 |-> (Col(a, b, i) + CarryIn(a, b, i)) % 256]

\* The u32 `*` operator: the low 32 bits, and whether the product left u32.
overflowing_mul(a, b) ==
  LET p == Product(a, b)
  IN [value |-> <<p[1], p[2], p[3], p[4]>>,
      overflow |-> \E i \in 5..8 : p[i] # 0]

\* ------------------------------------------------------------ resolutions
SmallDims == {ToU32(n) : n \in 0..MaxDim}

\* 65536 and 4294967295.
BigDims == {<<0, 0, 1, 0>>, <<255, 255, 255, 255>>}

Dims == SmallDims \cup BigDims

Resolutions == [width : Dims, height : Dims]

\* ------------------------------------------------------------- addresses
Addr == 0..MaxAddr

ValidAddr == 1..MaxAddr

\* ----------------------------------------------------------------- state
VARIABLES
  phase,            \* "none" | "live" | "dropped"
  ip,               \* NetworkCamera.ip
  opencv_backend,   \* NetworkCamera.opencv_backend (the owned device)
  next_id,          \* identity given to the next device that is opened
  overflow_checks,  \* whether the build traps integer overflow
  last              \* the last call on the handle and what it returned

vars == <<phase, ip, opencv_backend, next_id, overflow_checks, last>>

NoDevice ==
  [id |-> 0, addr |-> 0, stream_open |-> FALSE,
   resolution |-> [width |-> ToU32(0), height |-> ToU32(0)]]

NoCall ==
  [op |-> "none", method |-> "", result |-> "None", inner |-> "None", addr |-> 0,
   rgba |-> FALSE, size |-> ToU32(0), bytes |-> 0, buf_len |-> 0,
   buffer |-> <<>>, frame |-> <<>>, data |-> <<>>, gpu |-> <<>>,
   texture |-> <<>>, allocated |-> 0, events |-> <<>>, peak |-> 0,
   stops |-> 0, target |-> 0]

\* ------------------------------------------------ capture device provider
\* OpenCvCaptureDevice::new_ip_camera: a device bound to the address, with
\* its stream not yet opened; fails on a malformed address or a failed open.
new_ip_camera(a, ok, r, id) ==
  IF a \notin ValidAddr \/ ~ok
    THEN [ok |-> FALSE, dev |-> NoDevice]
    ELSE [ok |-> TRUE,
          dev |-> [id |-> id, addr |-> a, stream_open |-> FALSE, resolution |-> r]]

\* OpenCvCaptureDevice::open_stream
device_open_stream(dev, ok) ==
  IF ok THEN [ok |-> TRUE, dev |-> [dev EXCEPT !.stream_open = TRUE]]
        ELSE [ok |-> FALSE, dev |-> dev]

\* OpenCvCaptureDevice::stop_stream
device_stop_stream(dev, ok) ==
  IF ok THEN [ok |-> TRUE, dev |-> [dev EXCEPT !.stream_open = FALSE]]
        ELSE [ok |-> FALSE, dev |-> dev]

\* A frame of this resolution can be held in memory.
Deliverable(r) == r.width \in SmallDims /\ r.height \in SmallDims

\* The RGB24 bytes of a w x h frame, row-major, three per pixel.
FrameData(w, h) == [k \in 1..(w * h * 3) |-> ((k - 1) % 254) + 1]

\* OpenCvCaptureDevice::frame: fails if the stream is not open or the
\* capture fails; else a frame of the current resolution.
device_frame(dev, ok) ==
  IF ~dev.stream_open \/ ~ok \/ ~Deliverable(dev.resolution)
    THEN [ok |-> FALSE, width |-> 0, height |-> 0, data |-> <<>>]
    ELSE LET w == U32ToInt(dev.resolution.width)
             h == U32ToInt(dev.resolution.height)
         IN [ok |-> TRUE, width |-> w, height |-> h, data |-> FrameData(w, h)]

\* image::ConvertBuffer: Rgb<u8> -> Rgba<u8>, alpha fully opaque.
rgb_to_rgba(data) ==
  [k \in 1..((Len(data) \div 3) * 4) |->
     IF k % 4 = 0 THEN 255 ELSE data[((k - 1) \div 4) * 3 + ((k - 1) % 4) + 1]]

\* ------------------------------------------------------------------ Init
Init ==
  /\ phase = "none"
  /\ ip = 0
  /\ opencv_backend = NoDevice
  /\ next_id = 1
  /\ overflow_checks \in BOOLEAN
  /\ last = NoCall

\* NetworkCamera::new
new(a, ok, r) ==
  /\ phase = "none"
  /\ next_id <= MaxDevices
  /\ LET opened == new_ip_camera(a, ok, r, next_id)
     IN IF ~opened.ok
          THEN /\ last' = [NoCall EXCEPT !.op = "new", !.result = "Err", !.addr = a]
               /\ UNCHANGED <<phase, ip, opencv_backend, next_id>>
          ELSE /\ phase' = "live"
               /\ ip' = a
               /\ opencv_backend' = opened.dev
               /\ next_id' = next_id + 1
               /\ last' = [NoCall EXCEPT !.op = "new", !.result = "Ok", !.addr = a,
                                         !.events = <<"open">>, !.peak = 1]
  /\ UNCHANGED overflow_checks

\* NetworkCamera::ip
ip_get ==
  /\ phase = "live"
  /\ last' = [NoCall EXCEPT !.op = "ip", !.result = "Ok", !.addr = ip]
  /\ UNCHANGED <<phase, ip, opencv_backend, next_id, overflow_checks>>

\* A set_ip that stores the address before the open is known to succeed.
set_ip_stores_first(a, ok, r) ==
  /\ phase = "live"
  /\ next_id <= MaxDevices
  /\ LET opened == new_ip_camera(a, ok, r, next_id)
     IN IF ~opened.ok
          THEN /\ ip' = a
               /\ last' = [NoCall EXCEPT !.op = "set_ip", !.result = "Err", !.addr = a,
                                         !.peak = 1]
               /\ UNCHANGED <<opencv_backend, next_id>>
          ELSE /\ opencv_backend' = opened.dev
               /\ ip' = a
               /\ next_id' = next_id + 1
               /\ last' = [NoCall EXCEPT !.op = "set_ip", !.result = "Ok", !.addr = a,
                                         !.events = <<"open", "release">>, !.peak = 2]
  /\ UNCHANGED <<phase, overflow_checks>>

\* A set_ip that replaces the device but forgets to store the address.
set_ip_keeps_ip(a, ok, r) ==
  /\ phase = "live"
  /\ next_id <= MaxDevices
  /\ LET opened == new_ip_camera(a, ok, r, next_id)
     IN IF ~opened.ok
          THEN /\ last' = [NoCall EXCEPT !.op = "set_ip", !.result = "Err", !.addr = a,
                                         !.peak = 1]
               /\ UNCHANGED <<ip, opencv_backend, next_id>>
          ELSE /\ opencv_backend' = opened.dev
               /\ next_id' = next_id + 1
               /\ last' = [NoCall EXCEPT !.op = "set_ip", !.result = "Ok", !.addr = a,
                                         !.events = <<"open", "release">>, !.peak = 2]
               /\ UNCHANGED ip
  /\ UNCHANGED <<phase, overflow_checks>>

\* NetworkCamera::set_ip.  The right-hand side of the assignment is
\* evaluated first: the new device is opened (and `?` returns on failure)
\* while the old one is still owned; the assignment then drops the old one.
set_ip(a, ok, r) ==
  /\ phase = "live"
  /\ next_id <= MaxDevices
  /\ LET opened == new_ip_camera(a, ok, r, next_id)
     IN IF ~opened.ok
          THEN /\ last' = [NoCall EXCEPT !.op = "set_ip", !.result = "Err", !.addr = a,
                                         !.peak = 1]
               /\ UNCHANGED <<ip, opencv_backend, next_id>>
          ELSE /\ opencv_backend' = opened.dev
               /\ ip' = a
               /\ next_id' = next_id + 1
               /\ last' = [NoCall EXCEPT !.op = "set_ip", !.result = "Ok", !.addr = a,
                                         !.events = <<"open", "release">>, !.peak = 2]
  /\ UNCHANGED <<phase, overflow_checks>>

\* NetworkCamera::open_stream
open_stream(ok) ==
  /\ phase = "live"
  /\ LET res == device_open_stream(opencv_backend, ok)
     IN /\ opencv_backend' = res.dev
        /\ last' = [NoCall EXCEPT !.op = "open_stream",
                                  !.result = IF res.ok THEN "Ok" ELSE "Err"]
  /\ UNCHANGED <<phase, ip, next_id, overflow_checks>>

\* NetworkCamera::frame
frame(ok) ==
  /\ phase = "live"
  /\ LET f == device_frame(opencv_backend, ok)
     IN last' = IF f.ok
                  THEN [NoCall EXCEPT !.op = "frame", !.result = "Ok",
                                      !.frame = <<f.width, f.height>>, !.data = f.data]
                  ELSE [NoCall EXCEPT !.op = "frame", !.result = "Err"]
  /\ UNCHANGED <<phase, ip, opencv_backend, next_id, overflow_checks>>

\* The channel counts multiplied in by min_buffer_size.
RgbaChannels == 4

RgbChannels == 3

\* NetworkCamera::min_buffer_size: (width * height * channels) as usize,
\* multiplied in u32.  An overflowing step traps when the build checks
\* overflow and wraps otherwise.
min_buffer_size(resolution, rgba, checks) ==
  LET wh == overflowing_mul(resolution.width, resolution.height)
      channels == IF rgba THEN RgbaChannels ELSE RgbChannels
      whc == overflowing_mul(wh.value, ToU32(channels))
  IN [panic |-> checks /\ (wh.overflow \/ whc.overflow), value |-> whc.value]

\* A call of min_buffer_size on the handle.
call_min_buffer_size(rgba) ==
  /\ phase = "live"
  /\ LET m == min_buffer_size(opencv_backend.resolution, rgba, overflow_checks)
     IN IF m.panic
          THEN /\ phase' = phase
               /\ last' = [NoCall EXCEPT !.op = "min_buffer_size", !.result = "Panic",
                                         !.rgba = rgba]
          ELSE /\ phase' = phase
               /\ last' = [NoCall EXCEPT !.op = "min_buffer_size", !.result = "Ok",
                                         !.rgba = rgba, !.size = m.value]
  /\ UNCHANGED <<ip, opencv_backend, next_id, overflow_checks>>

\* The caller's destination buffer before the call.
BlankBuffer(len) == [i \in 1..len |-> 0]

\* NetworkCamera::frame_to_buffer.  slice::copy_from_slice panics unless the
\* two slices have the same length.
frame_to_buffer(len, convert_rgba, ok) ==
  /\ phase = "live"
  /\ LET f == device_frame(opencv_backend, ok)
         frame_data == IF convert_rgba THEN rgb_to_rgba(f.data) ELSE f.data
         bytes == Len(frame_data)
         call == [NoCall EXCEPT !.op = "frame_to_buffer", !.rgba = convert_rgba,
                                !.buf_len = len, !.buffer = BlankBuffer(len)]
     IN IF ~f.ok
          THEN /\ phase' = phase
               /\ last' = [call EXCEPT !.result = "Err"]
          ELSE IF len # bytes
            THEN /\ phase' = phase
                 /\ last' = [call EXCEPT !.result = "Panic",
                                         !.frame = <<f.width, f.height>>,
                                         !.data = frame_data]
            ELSE /\ phase' = phase
                 /\ last' = [call EXCEPT !.result = "Ok", !.bytes = bytes,
                                         !.frame = <<f.width, f.height>>,
                                         !.data = frame_data, !.buffer = frame_data]
  /\ UNCHANGED <<ip, opencv_backend, next_id, overflow_checks>>

\* The methods of impl CaptureBackendTrait for NetworkCamera.
TraitMethods ==
  {"init", "backend", "camera_info", "refresh_camera_format", "camera_format",
   "set_camera_format", "compatible_list_by_resolution", "compatible_fourcc",
   "resolution", "set_resolution", "frame_rate", "set_frame_rate",
   "frame_format", "set_frame_format", "camera_control", "camera_controls",
   "set_camera_control", "open_stream", "is_stream_open", "frame",
   "frame_raw", "stop_stream"}

\* The body of every CaptureBackendTrait method: todo!().
todo == "Panic"

\* NetworkCamera::frame_texture.  The receiver is &mut self, so the call
\* self.frame() of line 114 selects the trait method frame(&mut self), not
\* the inherent frame(&self): it panics in todo!() before the device is
\* asked for a frame and before any GPU call.
frame_texture ==
  /\ phase = "live"
  /\ last' = [NoCall EXCEPT !.op = "frame_texture", !.method = "frame",
                            !.result = todo]
  /\ UNCHANGED <<phase, ip, opencv_backend, next_id, overflow_checks>>

\* NetworkCamera::stop_stream (the inherent method)
stop_stream(ok) ==
  /\ phase = "live"
  /\ LET res == device_stop_stream(opencv_backend, ok)
     IN /\ opencv_backend' = res.dev
        /\ last' = [NoCall EXCEPT !.op = "stop_stream",
                                  !.result = IF res.ok THEN "Ok" ELSE "Err",
                                  !.stops = 1, !.target = opencv_backend.id]
  /\ UNCHANGED <<phase, ip, next_id, overflow_checks>>

\* <NetworkCamera as CaptureBackendTrait>::m, for each method m.
trait_todo(m) ==
  /\ phase = "live"
  /\ last' = [NoCall EXCEPT !.op = "trait", !.method = m, !.result = todo]
  /\ UNCHANGED <<phase, ip, opencv_backend, next_id, overflow_checks>>

\* A drop that unwraps the result of stop_stream.
drop_unwraps(ok) ==
  /\ phase = "live"
  /\ LET res == device_stop_stream(opencv_backend, ok)
     IN /\ opencv_backend' = res.dev
        /\ phase' = "dropped"
        /\ last' = [NoCall EXCEPT !.op = "drop",
                                  !.result = IF res.ok THEN "Ok" ELSE "Panic",
                                  !.inner = IF res.ok THEN "Ok" ELSE "Err",
                                  !.stops = 1, !.target = opencv_backend.id,
                                  !.events = <<"release">>]
  /\ UNCHANGED <<ip, next_id, overflow_checks>>

\* impl Drop for NetworkCamera: self.stop_stream() resolves to the inherent
\* method; its result is bound to _stop_stream_err and discarded.
drop(ok) ==
  /\ phase = "live"
  /\ LET res == device_stop_stream(opencv_backend, ok)
     IN /\ opencv_backend' = res.dev
        /\ phase' = "dropped"
        /\ last' = [NoCall EXCEPT !.op = "drop", !.result = "Ok",
                                  !.inner = IF res.ok THEN "Ok" ELSE "Err",
                                  !.stops = 1, !.target = opencv_backend.id,
                                  !.events = <<"release">>]
  /\ UNCHANGED <<ip, next_id, overflow_checks>>

\* What the owner of a handle can do from outside the file.
Next ==
  \/ \E a \in Addr, ok \in BOOLEAN, r \in Resolutions : new(a, ok, r)
  \/ ip_get
  \/ \E a \in Addr, ok \in BOOLEAN, r \in Resolutions : set_ip(a, ok, r)
  \/ \E m \in TraitMethods : trait_todo(m)
  \/ \E ok \in BOOLEAN : drop(ok)

Spec == Init /\ [][Next]_vars

\* Calls of the private inherent methods, made from inside the file.
PrivateCall ==
  \/ \E ok \in BOOLEAN : open_stream(ok)
  \/ \E ok \in BOOLEAN : frame(ok)
  \/ \E rgba \in BOOLEAN : call_min_buffer_size(rgba)
  \/ \E len \in 0..MaxBufLen, rgba \in BOOLEAN, ok \in BOOLEAN : frame_to_buffer(len, rgba, ok)
  \/ frame_texture
  \/ \E ok \in BOOLEAN : stop_stream(ok)

ModuleNext == Next \/ PrivateCall

ModuleSpec == Init /\ [][ModuleNext]_vars

\* ------------------------------------------------------------ properties
\* A u32 value is zero.
U32IsZero(a) == \A i \in 1..4 : a[i] = 0

\* min_buffer_size of the device the handle owns, as the wrapped u32 value.
CurrentMinSize(rgba) == min_buffer_size(opencv_backend.resolution, rgba, FALSE).value

\* The destination buffer of the last frame_to_buffer call was shorter than
\* min_buffer_size(convert_rgba).
ShortBuffer == U32Less(ToU32(last.buf_len), CurrentMinSize(last.rgba))

\* C1: a set_ip that fails to open the new connection returns the error and
\* leaves the stored address and the owned device (identity and stream
\* status included) as they were.
C1_FailedSetIpKeepsState ==
  [][(last'.op = "set_ip" /\ last'.result = "Err")
       => (ip' = ip /\ opencv_backend' = opencv_backend /\ phase' = phase)]_vars

\* C1 witness: set_ip to another address has failed on a handle whose stream
\* is open; the old address and the old, still streaming, device remain.
C1_Witness ==
  /\ last.op = "set_ip" /\ last.result = "Err"
  /\ last.addr \in ValidAddr /\ last.addr # ip
  /\ opencv_backend.stream_open /\ opencv_backend.addr = ip

\* C2: whenever the handle is live, the stored address is the address the
\* owned device was opened with; ip() returns it, new(A) stores A and a
\* successful set_ip(B) stores B.
C2_AddressInSync ==
  /\ phase = "live" => ip = opencv_backend.addr
  /\ last.op = "ip" => last.addr = opencv_backend.addr
  /\ (last.op \in {"new", "set_ip"} /\ last.result = "Ok") => ip = last.addr

\* C2 witness: ip() called after a successful set_ip that changed the device.
C2_Witness ==
  /\ last.op = "ip" /\ opencv_backend.id >= 2
  /\ last.addr = ip /\ opencv_backend.addr = ip

\* C3: frame_to_buffer on a destination shorter than min_buffer_size returns
\* a checked error (no panic) and writes no byte of the destination.
C3_ShortBufferIsCheckedError ==
  (last.op = "frame_to_buffer" /\ ShortBuffer)
    => (last.result = "Err" /\ last.buffer = BlankBuffer(last.buf_len))

\* C4: with a destination of at least min_buffer_size bytes and a successful
\* capture, frame_to_buffer copies the frame and returns Ok(frame length).
C4_AmpleBufferIsFilled ==
  (last.op = "frame_to_buffer" /\ last.frame # <<>> /\ ~ShortBuffer)
    => /\ last.result = "Ok"
       /\ last.bytes = U32ToInt(CurrentMinSize(last.rgba))
       /\ SubSeq(last.buffer, 1, Len(last.data)) = last.data

\* C5: a successful set_ip on a handle whose stream is open returns with the
\* stream open on the new device.
C5_SetIpRestartsStream ==
  [][(opencv_backend.stream_open /\ last'.op = "set_ip" /\ last'.result = "Ok")
       => opencv_backend'.stream_open]_vars

\* C6: frame_texture, on a handle whose capture would give a frame, returns
\* a validation error with no GPU call issued and no texture allocated when
\* the frame has a zero side; otherwise it returns a texture of the frame's
\* width and height.
C6_TextureValidatedBeforeGpu ==
  (last.op = "frame_texture" /\ opencv_backend.stream_open
     /\ Deliverable(opencv_backend.resolution))
    => IF U32IsZero(opencv_backend.resolution.width)
            \/ U32IsZero(opencv_backend.resolution.height)
         THEN last.result = "Err" /\ last.gpu = <<>> /\ last.allocated = 0
         ELSE /\ last.result = "Ok"
              /\ last.texture = <<U32ToInt(opencv_backend.resolution.width),
                                  U32ToInt(opencv_backend.resolution.height)>>

\* C7: dropping the handle calls stop_stream on the owned device exactly
\* once, and teardown completes without a failure whether that call
\* returned Ok or an error.
C7_DropStopsOnceAndSwallows ==
  last.op = "drop"
    => /\ last.stops = 1
       /\ last.target = opencv_backend.id
       /\ last.inner \in {"Ok", "Err"}
       /\ last.result = "Ok"
       /\ phase = "dropped"

\* C7 witness: a handle with an open stream was dropped and the device's
\* stop_stream reported an error.
C7_Witness ==
  /\ last.op = "drop" /\ last.inner = "Err"
  /\ opencv_backend.stream_open /\ phase = "dropped"

\* A u32 value widened to nine digits.
Widen(v) == [i \in 1..9 |-> IF i <= 4 THEN v[i] ELSE 0]

RECURSIVE ScaleCarry(_, _, _)
\* Carry into digit i of p * k, for a small k.
ScaleCarry(p, k, i) ==
  IF i = 1 THEN 0 ELSE (p[i - 1] * k + ScaleCarry(p, k, i - 1)) \div 256

\* The mathematical product width * height * k, in nine digits.
MathProduct(w, h, k) ==
  LET p == Product(w, h)
  IN [i \in 1..9 |-> ((IF i <= 8 THEN p[i] * k ELSE 0) + ScaleCarry(p, k, i)) % 256]

\* C8: for a resolution with width > 0 and height > 0, min_buffer_size
\* returns the mathematical product width * height * 3 (or * 4 for rgba),
\* without wrap-around or abort, and changes no state.
C8_MinBufferSizeIsProduct ==
  [][(last'.op = "min_buffer_size"
        /\ ~U32IsZero(opencv_backend.resolution.width)
        /\ ~U32IsZero(opencv_backend.resolution.height))
       => /\ last'.result = "Ok"
          /\ Widen(last'.size) =
               MathProduct(opencv_backend.resolution.width,
                           opencv_backend.resolution.height,
                           IF last'.rgba THEN RgbaChannels ELSE RgbChannels)
          /\ UNCHANGED <<phase, ip, opencv_backend>>]_vars

\* C9: stop_stream never aborts, through the inherent method or through the
\* CaptureBackendTrait implementation.
C9_StopStreamNeverAborts ==
  (last.op = "stop_stream" \/ (last.op = "trait" /\ last.method = "stop_stream"))
    => last.result # "Panic"

\* C10: a successful set_ip releases the old device before it opens the new
\* connection, so no operation ever holds two connections at once.
C10_OldConnectionReleasedFirst ==
  /\ last.peak <= 1
  /\ (last.op = "set_ip" /\ last.result = "Ok") => last.events = <<"release", "open">>
====
